---- MODULE Spec2Model ----
(***************************************************************************)
(* Record decoder of mdfreader (dataRead.pyx): sorted_data_read and its    *)
(* read_* helpers, the earlier revision dataRead/dataRead* of the same     *)
(* file, and the unsorted record splitter unsorted_data_read.              *)
(*                                                                         *)
(* Machine words are modelled as the set of positions of their 1 bits     *)
(* (bit 0 is the least significant), so that the 64-bit paths keep their   *)
(* width: and = intersection, or = union, shifts move the positions.       *)
(***************************************************************************)
EXTENDS Integers, Sequences, FiniteSets, TLC

(***************************************************************************)
(* Bounds of the model.                                                    *)
(***************************************************************************)
MaxRecords == 2      \* number_of_records ranges over 0..MaxRecords
MaxStream == 3       \* an unsorted stream holds 0..MaxStream records
MaxPayload == 3      \* a VLSD record announces 0..MaxPayload payload bytes

(***************************************************************************)
(* Bit vectors.                                                            *)
(***************************************************************************)
Bits(W) == 0..(W - 1)

RECURSIVE Pow2(_)
Pow2(n) == IF n = 0 THEN 1 ELSE 2 * Pow2(n - 1)

\* the 1 bits of a byte 0..255
ByteBitsTable == [b \in 0..255 |-> {k \in 0..7 : (b \div Pow2(k)) % 2 = 1}]

ByteBits(b) == ByteBitsTable[b]

\* w << k inside a type of W bits (bits shifted past the width are lost)
Shl(w, k, W) == {b + k : b \in w} \cap Bits(W)

\* logical w >> k
Shr(w, k) == {b - k : b \in {x \in w : x >= k}}

\* arithmetic w >> k of a signed W-bit value
ShrA(w, k, W) == Shr(w, k) \cup (IF (W - 1) \in w THEN (W - k)..(W - 1) ELSE {})

\* conversion of a `from`-bit signed value to a wider type of `to` bits
SignExt(w, from, to) == IF (from - 1) \in w THEN w \cup (from..(to - 1)) ELSE w

\* numpy byteswap of one W-bit element
ByteSwap(w, W) == {8 * ((W \div 8) - 1 - (b \div 8)) + (b % 8) : b \in w}

\* the integer a byte sequence denotes, least significant byte first
WordLE(bytes) == UNION {Shl(ByteBits(bytes[k]), 8 * (k - 1), 8 * Len(bytes)) : k \in 1..Len(bytes)}

\* the integer a byte sequence denotes, most significant byte first
WordBE(bytes) == UNION {Shl(ByteBits(bytes[k]), 8 * (Len(bytes) - k), 8 * Len(bytes)) : k \in 1..Len(bytes)}

VARIABLES
    byteorder,          \* sys.byteorder of the host: "little" or "big"
    int_width,          \* width in which the C compiler evaluates the int shift expressions
    long_width,         \* width of the C type long of the build
    char_signed,        \* whether plain `char` is signed in this build
    revision,           \* "sorted_data_read" (current), "dataRead" (earlier revision) or
                        \* "dataRead_bitCount" (the revision that dispatches on bitCount)
    tmp,                \* the byte buffer handed to the decoder
    bit_count, signal_data_type, record_format, number_of_records,
    record_byte_size, bit_offset, pos_byte_beg, n_bytes, array,
    pc,                 \* "call", "loop", "returned", "none", "raised"; unsorted_data_read
                        \* and sd_data_read: "entry", "while", "returned", "raised",
                        \* "crashed"
    reader,             \* the read_* routine the dispatch chose
    swap,               \* the swap flag the dispatch passed to it
    i,                  \* loop index of the reader
    temp,               \* the reader's temporary (temp2byte, temp4byte, temp8byte ...)
    buf,                \* the output array being filled
    reads,              \* indices of bit_stream read so far
    position,           \* unsorted_data_read: offset of the next record in the stream
    record_id_size,     \* unsorted_data_read: byte length of a record id
    coercion,           \* what assigning a bytes slice to a C integer does
    exception,          \* the exception that left unsorted_data_read or sd_data_read
    python,             \* major version of the Python the module is built for (2 or 3)
    sd_block_length,    \* sd_data_read: the data length of the SD block
    pointer,            \* sd_data_read: offset of the next entry in the block
    max_len,            \* sd_data_read: the largest VLSDLen seen so far
    channel_format,     \* sd_data_read: the codec name, "" for byte arrays
    notice,             \* sd_data_read: what printf has written
    returns,            \* sd_data_read: "" while running, then "ndarray" or "None"
    other               \* the frame of a second decode call over the same buffer that is
                        \* not running at the moment (NoCall when there is none)

build == <<byteorder, int_width, long_width, char_signed, revision, python>>
args == <<tmp, bit_count, signal_data_type, record_format, number_of_records,
          record_byte_size, bit_offset, pos_byte_beg, n_bytes, array, sd_block_length>>
unsorted == <<position, record_id_size, coercion, exception>>
vlsd == <<pointer, max_len, channel_format, notice, returns>>
vars == <<build, args, pc, reader, swap, i, temp, buf, reads, unsorted, vlsd, other>>


(***************************************************************************)
(* C arithmetic of the expressions written with int literals and unsigned  *)
(* char operands: `1 << bit_count`, `temp8[0]<<56`.  They are evaluated in *)
(* int_width bits; a shift count of int_width or more is undefined in C    *)
(* and the hardware takes the count modulo the width.                      *)
(***************************************************************************)
ShlC(w, c) == Shl(w, c % int_width, int_width)

\* (1 << c) - 1
OnesC(c) == Bits(c % int_width)

\* conversion of the value of such an expression to a C type of W bits
ToType(w, W) == IF W > int_width THEN SignExt(w, int_width, W) ELSE w \cap Bits(W)

\* integer promotion of one element of the byte temporaries temp[2] .. temp8[8]:
\* `unsigned char` in sorted_data_read's readers, plain `char` in dataRead's
TempByte(b) ==
    IF revision \in {"dataRead", "dataRead_bitCount"} /\ char_signed
    THEN SignExt(ByteBits(b), 8, int_width)
    ELSE ByteBits(b)

\* temp[0]<<8*(n-1) | ... | temp[n-2]<<8 | temp[n-1]        (the "swap bytes" lines)
SwapBytes(bytes) ==
    UNION {ShlC(TempByte(bytes[k]), 8 * (Len(bytes) - k)) : k \in 1..Len(bytes)}

\* memcpy(&temp, src, n) into a W-bit temporary holding `old`
Memcpy(old, bytes, W) ==
    IF byteorder = "little"
    THEN (old \ Bits(8 * Len(bytes))) \cup WordLE(bytes)
    ELSE (old \ ((W - 8 * Len(bytes))..(W - 1)))
            \cup Shl(WordBE(bytes), W - 8 * Len(bytes), W)

\* the n bytes of buffer b from index pos (0-based); a byte beyond the buffer
\* is whatever lies there (g)
Fetch(b, pos, n, g) == [k \in 1..n |-> IF pos + k <= Len(b) THEN b[pos + k] ELSE g]


(***************************************************************************)
(* sorted_data_read / dataRead: the dispatch on record_format,             *)
(* signal_data_type and n_bytes.  record_format is "V" for a dtype string  *)
(* holding 'V' or 'S' and "num" for a numeric dtype.  Readers carry the    *)
(* names of the current revision (read_unsigned_int is dataReadUInt ...).  *)
(***************************************************************************)
\* (byteorder == 'little' and signal_data_type == lt) or
\* (byteorder == 'big' and signal_data_type == bt)  ->  swap 0, else swap 1
SwapFlag(lt, bt) ==
    IF \/ (byteorder = "little" /\ signal_data_type \in lt)
       \/ (byteorder = "big" /\ signal_data_type \in bt)
    THEN 0 ELSE 1

\* dataRead of the revision that dispatches on bitCount: it has no array
\* parameter, no half floats and no complex numbers
DispatchBitCount ==
    IF record_format = "V" THEN <<"read_byte", 0>>
    ELSE IF signal_data_type \in {4, 5} /\ bit_count = 32
        THEN <<"read_float", SwapFlag({4}, {5})>>
    ELSE IF signal_data_type \in {4, 5} /\ bit_count = 64
        THEN <<"read_double", SwapFlag({4}, {5})>>
    ELSE IF signal_data_type \in {0, 1, 13} /\ bit_count <= 8
        THEN <<"read_unsigned_char", 0>>
    ELSE IF signal_data_type \in {2, 3} /\ bit_count <= 8
        THEN <<"read_signed_char", 0>>
    ELSE IF signal_data_type \in {0, 1, 13, 14} /\ bit_count <= 16
        THEN <<"read_unsigned_short", SwapFlag({0}, {1})>>
    ELSE IF signal_data_type \in {2, 3} /\ bit_count <= 16
        THEN <<"read_signed_short", SwapFlag({2}, {3})>>
    ELSE IF signal_data_type \in {0, 1, 14} /\ bit_count <= 32
        THEN <<"read_unsigned_int", SwapFlag({0}, {1})>>
    ELSE IF signal_data_type \in {2, 3} /\ bit_count <= 32
        THEN <<"read_signed_int", SwapFlag({2}, {3})>>
    ELSE IF signal_data_type \in {0, 1} /\ bit_count <= 64
        THEN <<"read_unsigned_longlong", SwapFlag({0}, {1})>>
    ELSE IF signal_data_type \in {2, 3} /\ bit_count <= 64
        THEN <<"read_signed_longlong", SwapFlag({0}, {1})>>
    ELSE <<"read_byte", 0>>

\* the reader and the swap flag passed to it; "none" when no branch returns
Dispatch ==
    IF revision = "dataRead_bitCount" THEN DispatchBitCount
    ELSE IF ~array THEN
        IF record_format = "V" THEN <<"read_byte", 0>>
        ELSE IF signal_data_type \in {4, 5} /\ n_bytes = 4
            THEN <<"read_float", SwapFlag({4}, {5})>>
        ELSE IF signal_data_type \in {4, 5} /\ n_bytes = 8
            THEN <<"read_double", SwapFlag({4}, {5})>>
        ELSE IF revision = "sorted_data_read" /\ signal_data_type \in {4, 5} /\ n_bytes = 2
            THEN <<"read_half", SwapFlag({4}, {5})>>
        ELSE IF signal_data_type \in {0, 1, 13} /\ n_bytes = 1
            THEN <<"read_unsigned_char", 0>>
        ELSE IF signal_data_type \in {2, 3} /\ n_bytes = 1
            THEN <<"read_signed_char", 0>>
        ELSE IF signal_data_type \in {0, 1, 13, 14} /\ n_bytes <= 2
            THEN <<"read_unsigned_short", SwapFlag({0}, {1})>>
        ELSE IF signal_data_type \in {2, 3} /\ n_bytes <= 2
            THEN <<"read_signed_short", SwapFlag({2}, {3})>>
        ELSE IF signal_data_type \in {0, 1, 14} /\ n_bytes <= 4
            THEN <<"read_unsigned_int", SwapFlag({0}, {1})>>
        ELSE IF signal_data_type \in {2, 3} /\ n_bytes <= 4
            THEN <<"read_signed_int", SwapFlag({2}, {3})>>
        ELSE IF signal_data_type \in {0, 1} /\ n_bytes <= 8
            THEN <<"read_unsigned_longlong", SwapFlag({0}, {1})>>
        ELSE IF signal_data_type \in {2, 3} /\ n_bytes <= 8
            THEN <<"read_signed_longlong", SwapFlag({0}, {1})>>
        ELSE IF revision = "sorted_data_read" /\ signal_data_type \in {15, 16}
            THEN IF n_bytes = 16 THEN <<"read_cdouble", 0>>
                 ELSE IF n_bytes = 8 THEN <<"read_cfloat", 0>>
                 ELSE IF n_bytes = 4 THEN <<"read_chalf", 0>>
                 ELSE <<"none", 0>>
        ELSE <<"read_byte", 0>>
    ELSE <<"read_array", SwapFlag({0, 2, 4}, {1, 3, 5})>>

IntReaders == {"read_unsigned_char", "read_signed_char", "read_unsigned_short",
               "read_signed_short", "read_unsigned_int", "read_signed_int",
               "read_unsigned_longlong", "read_signed_longlong"}

SignedReaders == {"read_signed_char", "read_signed_short", "read_signed_int",
                  "read_signed_longlong"}

FloatReaders == {"read_half", "read_float", "read_double"}

ComplexReaders == {"read_cfloat", "read_cdouble"}

\* width in bits of the reader's temporary and of one element of its buf
Width(r) ==
    CASE r \in {"read_unsigned_char", "read_signed_char"} -> 8
      [] r \in {"read_unsigned_short", "read_signed_short", "read_half"} -> 16
      [] r \in {"read_unsigned_int", "read_signed_int", "read_float"} -> 32
      [] r \in {"read_unsigned_longlong", "read_signed_longlong", "read_double",
                "read_cfloat"} -> 64
      [] r = "read_cdouble" -> 128
      [] OTHER -> 8 * n_bytes

\* whether the temporary the reader shifts is of a signed C type
\* (char temp1byte, short temp2byte, int temp4byte, long long temp8byte)
TempSigned(r) ==
    CASE r = "read_signed_char" -> char_signed
      [] r \in {"read_signed_short", "read_signed_int", "read_signed_longlong"} -> TRUE
      [] OTHER -> FALSE

\* a reader that always copies the whole machine word of its temporary, whatever
\* the byte length of the field
CopyLenWholeWord(r) == Width(r) \div 8

\* number of bytes the reader takes from bit_stream for one record; the readers
\* of dataRead_bitCount derive it from bitCount (nBytes)
CopyLen(r) ==
    CASE r \in {"read_unsigned_char", "read_signed_char"} -> 1
      [] r \in {"read_unsigned_short", "read_signed_short", "read_half"} -> 2
      [] revision = "dataRead_bitCount" /\ r \in {"read_unsigned_int", "read_signed_int"} ->
            IF bit_count > 24 THEN 4 ELSE 3
      [] revision = "dataRead_bitCount"
            /\ r \in {"read_unsigned_longlong", "read_signed_longlong"} ->
            (bit_count \div 8) + (IF bit_count % 8 > 0 THEN 1 ELSE 0)
      [] r \in {"read_unsigned_int", "read_signed_int"} ->
            IF bit_count = 32
            THEN (IF revision = "dataRead" THEN 2 ELSE 4)
            ELSE n_bytes
      [] r = "read_float" -> 4
      [] r \in {"read_double", "read_cfloat"} -> 8
      [] r = "read_cdouble" -> 16
      [] OTHER -> n_bytes

\* the guard `if bit_count < L:` in front of `temp &= mask`; the char readers and
\* the signed short reader mask without a guard
MaskGuard(r) ==
    CASE r \in {"read_unsigned_char", "read_signed_char", "read_signed_short"} -> TRUE
      [] r = "read_unsigned_short" -> bit_count < 16
      [] revision = "dataRead_bitCount" /\ r \in {"read_unsigned_int", "read_signed_int"} ->
            bit_count < 32
      [] revision = "dataRead_bitCount"
            /\ r \in {"read_unsigned_longlong", "read_signed_longlong"} -> bit_count < 64
      [] r \in {"read_unsigned_int", "read_signed_int"} ->
            IF n_bytes = 4 THEN bit_count < 32 ELSE bit_count < 24
      [] r = "read_unsigned_longlong" ->
            CASE n_bytes = 8 -> bit_count < 64
              [] n_bytes = 7 -> bit_count < 56
              [] n_bytes = 6 -> bit_count < 48
              [] OTHER -> bit_count < 32
      [] r = "read_signed_longlong" ->
            CASE n_bytes = 8 -> bit_count < 64
              [] n_bytes = 7 -> bit_count < 56
              [] n_bytes = 6 -> bit_count < 48
              [] OTHER -> bit_count < 40
      [] OTHER -> FALSE

\* width of the variable the reader keeps `temp & sign_bit_mask` in: sign_bit is
\* unsigned char, unsigned short, unsigned int, unsigned long
SignBitWidth(r) == IF r = "read_signed_longlong" THEN long_width ELSE Width(r)

\* cdef ... mask = ((1 << bit_count) - 1)
mask(r) == ToType(OnesC(bit_count), Width(r))

\* cdef ... sign_bit_mask = (1 << (bit_count-1))
sign_bit_mask(r) == ToType(ShlC({0}, bit_count - 1), Width(r))

\* cdef ... sign_extend = ((1 << (W - bit_count)) - 1) << bit_count
sign_extend(r) == ToType(ShlC(OnesC(Width(r) - bit_count), bit_count), Width(r))

\* the branch of an integer reader that stores the bytes as they are
\* (if bit_count == 16: ...; dataReadUInt of dataRead_bitCount: if nBytes == 4:)
PlainCopy(r) ==
    IF revision = "dataRead_bitCount" /\ r \in {"read_unsigned_int", "read_signed_int"}
    THEN bit_count > 24
    ELSE bit_count = Width(r)

\* the readers whose loop has a "swap bytes" line in front of the shift; in
\* dataRead_bitCount only the 3-byte branch of dataReadUInt and dataReadInt
SwapsInLoop(r) ==
    revision = "dataRead_bitCount" => r \in {"read_unsigned_int", "read_signed_int"}

\* one pass of the reader's loop body for an integer field: the new value of the
\* temporary, which is also the element stored in buf[i]
IntBody(r, old, bytes) ==
    LET W == Width(r) IN
    IF PlainCopy(r)
    THEN Memcpy(old, bytes, W)
    ELSE
        LET loaded  == IF swap = 0 \/ ~SwapsInLoop(r) THEN Memcpy(old, bytes, W)
                       ELSE ToType(SwapBytes(bytes), W)
            shifted == IF bit_offset > 0
                       THEN (IF TempSigned(r) THEN ShrA(loaded, bit_offset, W)
                             ELSE Shr(loaded, bit_offset))
                       ELSE loaded
            masked  == IF MaskGuard(r) THEN shifted \cap mask(r) ELSE shifted
            sign_bit == (masked \cap sign_bit_mask(r)) \cap Bits(SignBitWidth(r))
        IN  IF r \in SignedReaders /\ sign_bit # {}
            THEN masked \cup sign_extend(r)
            ELSE masked

\* one pass of the loop body of any reader
Body(r, old, bytes) ==
    CASE r \in IntReaders -> IntBody(r, old, bytes)
      [] r \in FloatReaders \cup ComplexReaders \cup {"read_array"} ->
            Memcpy(old, bytes, Width(r))
      [] OTHER -> bytes

\* the readers that end in `return buf.byteswap()` when swap is set
SwapsAtReturn(r) ==
    \/ r \in IntReaders /\ (PlainCopy(r) \/ ~SwapsInLoop(r))
    \/ r \in FloatReaders \cup ComplexReaders \cup {"read_array"}

\* byteswap of one element: a complex element swaps each component
ElementSwap(r, e) ==
    IF r \in ComplexReaders
    THEN LET H == Width(r) \div 2 IN
         ByteSwap(e \cap Bits(H), H) \cup Shl(ByteSwap(Shr(e, H), H), H, 2 * H)
    ELSE ByteSwap(e, Width(r))


(***************************************************************************)
(* The calls the metadata layer makes.  n_bytes is the byte length that    *)
(* covers bit_offset + bit_count bits; floats, complex numbers, CANopen    *)
(* date/time fields (13, 14) and byte strings are byte aligned.            *)
(***************************************************************************)
Layout(t, o, c, n, f, a) ==
    [signal_data_type |-> t, bit_offset |-> o, bit_count |-> c, n_bytes |-> n,
     record_format |-> f, array |-> a]

\* bit offsets inside the first byte: aligned, odd, half byte and last bit, so
\* that every bit_count occurs with its smallest and its largest n_bytes
BitOffsets == {0, 1, 4, 7}

IntLayouts ==
    {Layout(x[1], x[2], x[3], (x[2] + x[3] + 7) \div 8, "num", FALSE) :
        x \in {y \in {0, 1, 2, 3} \X BitOffsets \X (1..64) : y[2] + y[3] <= 64}}

FloatLayouts == {Layout(t, 0, 8 * n, n, "num", FALSE) : t \in {4, 5}, n \in {2, 4, 8}}

ComplexLayouts == {Layout(t, 0, 8 * n, n, "num", FALSE) : t \in {15, 16}, n \in {4, 8, 16}}

CanOpenLayouts ==
    {Layout(13, 0, 8 * n, n, "num", FALSE) : n \in {1, 2}}
        \cup {Layout(14, 0, 8 * n, n, "num", FALSE) : n \in {2, 4}}

ByteLayouts ==
    {Layout(t, 0, 8 * n, n, "V", FALSE) : t \in {7, 10}, n \in {1, 3}}
        \cup {Layout(10, 0, 24, 3, "num", FALSE)}

ArrayLayouts == {Layout(t, 0, 16, 2, "num", TRUE) : t \in {0, 1}}

\* type codes with a byte length no branch of the if chain names: a float of 3
\* bytes, a complex number of 2 bytes, the CANopen date of 7 and time of 6 bytes
OtherLayouts ==
    {Layout(4, 0, 24, 3, "num", FALSE), Layout(13, 0, 56, 7, "num", FALSE),
     Layout(14, 0, 48, 6, "num", FALSE)}
        \cup {Layout(t, 0, 16, 2, "num", FALSE) : t \in {15, 16}}

\* float type codes whose field is not the whole of its bytes: 29 bits from bit 3
\* on and 30 bits from bit 0 on, 4 bytes either way
PartialFloatLayouts ==
    {Layout(t, 3, 29, 4, "num", FALSE) : t \in {4, 5}}
        \cup {Layout(t, 0, 30, 4, "num", FALSE) : t \in {4, 5}}

\* integer fields of no bits, behind bit_offset bits of their one byte
ZeroBitLayouts ==
    {Layout(t, o, 0, 1, "num", FALSE) : t \in {0, 1, 2, 3}, o \in BitOffsets \ {0}}

Layouts ==
    IntLayouts \cup FloatLayouts \cup ComplexLayouts \cup CanOpenLayouts
        \cup ByteLayouts \cup ArrayLayouts \cup OtherLayouts \cup PartialFloatLayouts
        \cup ZeroBitLayouts

\* content of the field of one record: byte k (0-based) of pattern p
PatternByte(p, k) == IF p = "ones" THEN 255 ELSE (1 + 34 * k) % 256

Patterns == {"ones", "ramp"}

\* the buffer of Len(pats) records of `stride` bytes whose field starts at byte
\* `beg`; bytes outside the field belong to other channels (238); `cut` bytes
\* are missing at the end
BuildTmp(pats, stride, beg, n, cut) ==
    [idx \in 1..(Len(pats) * stride - cut) |->
        LET j == (idx - 1) % stride IN
        IF beg <= j /\ j < beg + n
        THEN PatternByte(pats[((idx - 1) \div stride) + 1], j - beg)
        ELSE 238]

\* record styles: the field alone in the record, the field between bytes of
\* other channels, and a buffer that ends one byte early
Styles == {"tight", "padded", "short"}

\* the builds: host byte order, width of the int arithmetic, width of long,
\* signedness of plain char (of the byte temporaries of dataRead's readers; in
\* read_signed_char the mask removes what a signed temp1byte shifts in, so
\* sorted_data_read is modelled on the builds with signed char alone)
Builds(rev) ==
    {b \in [byteorder : {"little", "big"}, int_width : {32, 64}, long_width : {32, 64},
             char_signed : BOOLEAN] :
        /\ b.int_width <= b.long_width
        /\ rev = "sorted_data_read" => b.char_signed}

SeqsUpTo(S, n) == UNION {[1..k -> S] : k \in 0..n}

\* the parameters and the locals of one call of sorted_data_read: its frame
CallFrame(p, t, f, n, sz, o, beg, nb, a, at, r, sw, k, tp, b, rd, s) ==
    [bit_count |-> p, signal_data_type |-> t, record_format |-> f,
     number_of_records |-> n, record_byte_size |-> sz, bit_offset |-> o,
     pos_byte_beg |-> beg, n_bytes |-> nb, array |-> a, pc |-> at, reader |-> r,
     swap |-> sw, i |-> k, temp |-> tp, buf |-> b, reads |-> rd, switches |-> s]

\* no second call
NoCall == CallFrame(0, 0, "", 0, 0, 0, 0, 0, FALSE, "idle", "", 0, 0, {}, <<>>, {}, 0)

\* the state at the entry of sorted_data_read (rev = "sorted_data_read") or of
\* dataRead (rev = "dataRead")
InitCall(rev) ==
    \E b \in Builds(rev), l \in Layouts, st \in Styles,
       pats \in SeqsUpTo(Patterns, MaxRecords) :
        /\ rev = "dataRead_bitCount" => ~l.array
        /\ st = "padded" => Len(pats) > 0
        /\ st = "short" => (Len(pats) > 0 /\ \A k \in 1..Len(pats) : pats[k] = "ones")
        /\ byteorder = b.byteorder
        /\ int_width = b.int_width
        /\ long_width = b.long_width
        /\ char_signed = b.char_signed
        /\ revision = rev
        /\ signal_data_type = l.signal_data_type
        /\ bit_offset = l.bit_offset
        /\ bit_count = l.bit_count
        /\ n_bytes = l.n_bytes
        /\ record_format = l.record_format
        /\ array = l.array
        /\ number_of_records = Len(pats)
        /\ pos_byte_beg = (IF st = "padded" THEN 1 ELSE 0)
        /\ record_byte_size = (IF st = "padded" THEN l.n_bytes + 2 ELSE l.n_bytes)
        /\ tmp = BuildTmp(pats, IF st = "padded" THEN l.n_bytes + 2 ELSE l.n_bytes,
                          IF st = "padded" THEN 1 ELSE 0, l.n_bytes,
                          IF st = "short" THEN 1 ELSE 0)
        /\ pc = "call"
        /\ reader = ""
        /\ swap = 0
        /\ i = 0
        /\ temp = {}
        /\ buf = <<>>
        /\ reads = {}
        /\ position = 0
        /\ record_id_size = 0
        /\ coercion = ""
        /\ exception = ""
        /\ python = 3
        /\ sd_block_length = 0
        /\ pointer = 0
        /\ max_len = 0
        /\ channel_format = ""
        /\ notice = <<>>
        /\ returns = ""
        /\ other = NoCall

Init == InitCall("sorted_data_read")

InitDataRead == InitCall("dataRead")

InitBitCount == InitCall("dataRead_bitCount")

(***************************************************************************)
(* sorted_data_read: the dispatch.  read_chalf binds an array of uint32 to *)
(* a uint64_t[:] view, which raises before its loop; a complex field of    *)
(* another length leaves the if chain without a return (None).             *)
(***************************************************************************)
Call ==
    /\ pc = "call"
    /\ reader' = Dispatch[1]
    /\ swap' = Dispatch[2]
    /\ pc' = CASE Dispatch[1] = "none" -> "none"
               [] Dispatch[1] = "read_chalf" -> "raised"
               [] OTHER -> "loop"
    /\ UNCHANGED <<build, other, args, vlsd, i, temp, buf, reads, unsorted>>

\* the bytes the reader takes for record k (0-based) of buffer b
RecordBytes(b, stride, beg, k, g) == Fetch(b, beg + stride * k, CopyLen(reader), g)

\* for i in range(number_of_records): one pass of the reader's loop
Step ==
    /\ pc = "loop"
    /\ i < number_of_records
    /\ \E g \in {0, 255} :
        /\ (pos_byte_beg + record_byte_size * i + CopyLen(reader) <= Len(tmp)) => g = 0
        /\ LET e == Body(reader, temp, RecordBytes(tmp, record_byte_size, pos_byte_beg, i, g))
           IN  /\ temp' = (IF reader = "read_byte" THEN temp ELSE e)
               /\ buf' = Append(buf, e)
    /\ reads' = reads \cup ((pos_byte_beg + record_byte_size * i)
                              ..(pos_byte_beg + record_byte_size * i + CopyLen(reader) - 1))
    /\ i' = i + 1
    /\ UNCHANGED <<build, other, args, vlsd, pc, reader, swap, unsorted>>

\* the array the caller receives
Returned(r, sw, b) ==
    IF sw = 1 /\ SwapsAtReturn(r)
    THEN [k \in 1..Len(b) |-> ElementSwap(r, b[k])]
    ELSE b

\* return buf / return buf.byteswap()
Return ==
    /\ pc = "loop"
    /\ i = number_of_records
    /\ buf' = Returned(reader, swap, buf)
    /\ pc' = "returned"
    /\ UNCHANGED <<build, other, args, vlsd, reader, swap, i, temp, reads, unsorted>>

Next == Call \/ Step \/ Return

Spec == Init /\ [][Next]_vars

SpecDataRead == InitDataRead /\ [][Next]_vars

SpecBitCount == InitBitCount /\ [][Next]_vars


(***************************************************************************)
(* What the field of a record denotes, read off the buffer itself.         *)
(***************************************************************************)
\* the layout fits the record and the records fit the buffer
WellFormed ==
    /\ pos_byte_beg + n_bytes <= record_byte_size
    /\ number_of_records * record_byte_size <= Len(tmp)

\* byte indices (0-based) of the field of record r
Span(r) ==
    (pos_byte_beg + record_byte_size * r)..(pos_byte_beg + record_byte_size * r + n_bytes - 1)

\* the bytes of the field of record r
FieldBytes(r) == [k \in 1..n_bytes |-> tmp[pos_byte_beg + record_byte_size * r + k]]

\* the byte order the signal type declares
SourceOrder == IF signal_data_type \in {0, 2, 4, 13, 14, 15} THEN "little" ELSE "big"

\* the integer formed from the field's bytes in the declared byte order
FieldWord(r) == IF SourceOrder = "little" THEN WordLE(FieldBytes(r)) ELSE WordBE(FieldBytes(r))

\* (integer formed from the field's bytes >> bit_offset) & ((1 << bit_count) - 1)
Extracted(r) == Shr(FieldWord(r), bit_offset) \cap Bits(bit_count)

UnsignedField ==
    /\ signal_data_type \in {0, 1}
    /\ reader \in IntReaders \ SignedReaders

SignedField ==
    /\ signal_data_type \in {2, 3}
    /\ reader \in SignedReaders

\* C1: every element of an unsigned integer field with bit_count below the machine
\* width equals (field bytes as integer >> bit_offset) & ((1 << bit_count) - 1), so
\* no bit of a neighbouring field appears in the output
C1_UnsignedShiftedAndMasked ==
    (WellFormed /\ UnsignedField /\ bit_count < Width(reader)) =>
        \A k \in 1..Len(buf) : buf[k] = Extracted(k - 1)

\* C2: every element of a signed integer field with bit_count below the machine
\* width is the two's-complement value of the low bit_count bits: the extracted
\* bits with bit (bit_count-1) copied into all higher bits of the element
C2_SignedTwosComplement ==
    (WellFormed /\ SignedField /\ bit_count < Width(reader)) =>
        \A k \in 1..Len(buf) :
            buf[k] = SignExt(Extracted(k - 1), bit_count, Width(reader))

\* C3: the bytes of a scalar field (integer, float, complex) of more than one byte
\* are swapped if and only if the declared byte order differs from the host's
C3_SwapIffOrderDiffers ==
    (/\ pc \in {"loop", "returned"}
     /\ reader \in IntReaders \cup FloatReaders \cup ComplexReaders
     /\ signal_data_type \in {0, 1, 2, 3, 4, 5, 15, 16}
     /\ n_bytes > 1) =>
        (swap = 1 <=> SourceOrder # byteorder)

\* C4: with bit_count equal to the full machine width the returned element is the
\* complete raw value of the field's bytes, all of them, unmasked (in one of the
\* two byte orders; which one is claim C3)
C4_FullWidthIsRawValue ==
    (/\ pc = "returned"
     /\ WellFormed
     /\ reader \in IntReaders
     /\ bit_count = Width(reader)) =>
        \A k \in 1..Len(buf) :
            buf[k] \in {WordLE(FieldBytes(k - 1)), WordBE(FieldBytes(k - 1))}

\* C5: extracting an unsigned field and re-encoding it (shift left by bit_offset, or
\* into a zeroed span of n_bytes bytes) reproduces exactly the bits of the field
C5_ExtractReencodeRoundTrip ==
    (pc = "returned" /\ WellFormed /\ UnsignedField) =>
        \A k \in 1..Len(buf) :
            {b + bit_offset : b \in buf[k]}
                = FieldWord(k - 1) \cap (bit_offset..(bit_offset + bit_count - 1))

\* C6: every byte index the decoder reads lies inside [0, len(buffer)): a layout
\* that would read past the end of the buffer is rejected instead of being read
C6_ReadsInsideBuffer == \A x \in reads : x < Len(tmp)

\* C7: the decoder always returns an array, of exactly number_of_records elements,
\* and with number_of_records = 0 it reads no byte of the buffer
C7_ReturnsNumberOfRecords ==
    /\ pc \notin {"none", "raised"}
    /\ pc = "returned" => Len(buf) = number_of_records
    /\ number_of_records = 0 => reads = {}


\* the same records packed tightly: the fields alone, one after the other
TightTmp ==
    [idx \in 1..(number_of_records * n_bytes) |->
        tmp[pos_byte_beg + record_byte_size * ((idx - 1) \div n_bytes)
                + ((idx - 1) % n_bytes) + 1]]

\* the reader's loop run over the first k records of the tightly packed buffer
RECURSIVE TightRun(_)
TightRun(k) ==
    IF k = 0 THEN [t |-> {}, out |-> <<>>]
    ELSE LET p == TightRun(k - 1)
             e == Body(reader, p.t, RecordBytes(TightTmp, n_bytes, 0, k - 1, 0))
         IN  [t |-> IF reader = "read_byte" THEN p.t ELSE e, out |-> Append(p.out, e)]

strlen(b) ==
    IF \E k \in 1..Len(b) : b[k] = 0
    THEN (CHOOSE k \in 1..Len(b) : b[k] = 0 /\ \A j \in 1..(k - 1) : b[j] # 0) - 1
    ELSE Len(b)

\* bit_stream[lo:hi] with lo <= hi: behind the last byte of a bytes object lies a
\* NUL, a byte further on is whatever lies there (g)
Slice(b, lo, hi, g) ==
    [k \in 1..(hi - lo) |->
        IF lo + k <= Len(b) THEN b[lo + k]
        ELSE IF lo + k = Len(b) + 1 THEN 0
        ELSE g]

\* the integer a slice denotes, least significant byte first
RECURSIVE IntLE(_)
IntLE(bytes) ==
    IF bytes = <<>> THEN 0
    ELSE bytes[1] + 256 * IntLE(SubSeq(bytes, 2, Len(bytes)))

\* the record argument: per record id the Flags of its channel group (bit 0: VLSD),
\* its CGrecordLength (record id included) and its dataRecordName; VLSD_CG names
\* the channel a VLSD group feeds
record ==
    [id \in {1, 2, 3} |->
        CASE id = 1 -> [Flags |-> 0, CGrecordLength |-> record_id_size + 2,
                        dataRecordName |-> <<"a1", "a2">>, channelName |-> ""]
          [] id = 2 -> [Flags |-> 0, CGrecordLength |-> record_id_size + 1,
                        dataRecordName |-> <<"b">>, channelName |-> ""]
          [] id = 3 -> [Flags |-> 1, CGrecordLength |-> 0,
                        dataRecordName |-> <<"v">>, channelName |-> "v"]]

\* the keys of a buf that is given the channels of the fixed groups alone
ChannelsOfFixedGroups ==
    UNION {{record[id].dataRecordName[k] : k \in 1..Len(record[id].dataRecordName)} :
            id \in {x \in DOMAIN record : record[x].Flags % 2 = 0}}

\* the keys of buf: every channelName of every dataRecordName
Channels ==
    UNION {{record[id].dataRecordName[k] : k \in 1..Len(record[id].dataRecordName)} :
            id \in DOMAIN record}

\* record.read_record(record_id, info, slice): the value of every channel of the
\* group, one byte each behind the record id
read_record(id, slice) ==
    [c \in {record[id].dataRecordName[k] : k \in 1..Len(record[id].dataRecordName)} |->
        slice[record_id_size
                + (CHOOSE k \in 1..Len(record[id].dataRecordName) :
                        record[id].dataRecordName[k] = c)]]

\* bytes.decode('utf-8'), sequences of one and two bytes (longer ones do not occur
\* in the streams of the model): the code points, or a UnicodeDecodeError
RECURSIVE Utf8(_)
Utf8(b) ==
    IF b = <<>> THEN [ok |-> TRUE, v |-> <<>>]
    ELSE IF b[1] < 128
        THEN LET r == Utf8(Tail(b)) IN [ok |-> r.ok, v |-> <<b[1]>> \o r.v]
    ELSE IF b[1] \in 194..223 /\ Len(b) >= 2 /\ b[2] \in 128..191
        THEN LET r == Utf8(SubSeq(b, 3, Len(b)))
             IN  [ok |-> r.ok, v |-> <<(b[1] - 192) * 64 + (b[2] - 128)>> \o r.v]
    ELSE [ok |-> FALSE, v |-> <<>>]

\* the 16-bit code units of b in byte order `order`
Units(b, order) ==
    [k \in 1..(Len(b) \div 2) |->
        IF order = "little" THEN b[2 * k - 1] + 256 * b[2 * k]
        ELSE 256 * b[2 * k - 1] + b[2 * k]]

\* bytes.decode('<utf-16') and bytes.decode('>utf-16'): Python drops the leading
\* '<' or '>' of the codec name, so both are the codec utf-16: a byte order mark
\* selects the order and is removed, without one the order is the host's; an odd
\* length or a surrogate (pairs do not occur in the streams of the model) is a
\* UnicodeDecodeError
Utf16(b) ==
    LET bom   == IF Len(b) >= 2 /\ b[1] = 255 /\ b[2] = 254 THEN "little"
                 ELSE IF Len(b) >= 2 /\ b[1] = 254 /\ b[2] = 255 THEN "big"
                 ELSE ""
        rest  == IF bom = "" THEN b ELSE SubSeq(b, 3, Len(b))
        units == Units(rest, IF bom = "" THEN byteorder ELSE bom)
    IN  IF Len(b) % 2 = 1 \/ \E k \in 1..Len(units) : units[k] \in 55296..57343
        THEN [ok |-> FALSE, v |-> <<>>]
        ELSE [ok |-> TRUE, v |-> units]

\* the if chain on signal_data_type: a str for 6, 7, 8, 9, else the bytes as cut
Decode(t, b) ==
    CASE t = 6 -> [ok |-> TRUE, kind |-> "str", v |-> b]
      [] t = 7 -> [ok |-> Utf8(b).ok, kind |-> "str", v |-> Utf8(b).v]
      [] t \in {8, 9} -> [ok |-> Utf16(b).ok, kind |-> "str", v |-> Utf16(b).v]
      [] OTHER -> [ok |-> TRUE, kind |-> "bytes", v |-> b]

\* record_id = bit_stream[position:position + record_id_size] under the coercion
\* to the integer the bytes denote (position < strlen, so the slice stays inside
\* the bytes object and its closing NUL)
record_id == IntLE(Slice(tmp, position, position + record_id_size, 0))

\* buf = {} and the buf[channelName] = [] of every channel
InitialiseBuf ==
    /\ pc = "entry"
    /\ buf' = [c \in Channels |-> <<>>]
    /\ position' = 0
    /\ pc' = "while"
    /\ UNCHANGED <<build, other, args, vlsd, reader, swap, i, temp, reads, record_id_size,
                   coercion, exception>>

\* the first statement of the loop body as Cython coerces it: the bytes object has
\* no integer value
RecordIdTypeError ==
    /\ pc = "while"
    /\ position < strlen(tmp)
    /\ coercion = "TypeError"
    /\ pc' = "raised"
    /\ exception' = "TypeError"
    /\ reads' = reads \cup (position..(position + record_id_size - 1))
    /\ UNCHANGED <<build, other, args, vlsd, reader, swap, i, temp, buf, position, record_id_size,
                   coercion>>

\* a splitter that moves on to the end of the slice it has just cut
AdvanceToSliceEnd(p, n) == p + n + 1

\* position += n
Advance(p, n) == p + n

\* one pass of the while loop over a record of a group that is not VLSD; an
\* unknown record id is a KeyError
ReadFixed ==
    /\ pc = "while"
    /\ position < strlen(tmp)
    /\ coercion = "integer"
    /\ record_id \notin DOMAIN record \/ record[record_id].Flags % 2 = 0
    /\ IF record_id \notin DOMAIN record
       THEN /\ pc' = "raised"
            /\ exception' = "KeyError"
            /\ reads' = reads \cup (position..(position + record_id_size - 1))
            /\ UNCHANGED <<buf, position>>
       ELSE \E g \in {0, 1} :
            LET stop == position + record[record_id].CGrecordLength + 1
                r    == read_record(record_id, Slice(tmp, position, stop, g))
            IN  /\ stop <= Len(tmp) + 1 => g = 0
                /\ buf' = [c \in DOMAIN buf |->
                              IF c \in DOMAIN r THEN Append(buf[c], r[c]) ELSE buf[c]]
                /\ position' = Advance(position, record[record_id].CGrecordLength)
                /\ reads' = reads \cup (position..(stop - 1))
                /\ UNCHANGED <<pc, exception>>
    /\ UNCHANGED <<build, other, args, vlsd, reader, swap, i, temp, record_id_size, coercion>>

\* one pass of the while loop over a record of a VLSD group.  VLSDLen = 0 asks for
\* a slice of -1 bytes (SystemError); a VLSDLen no stream of the model announces
\* comes from bytes behind the buffer, and the copy of that many bytes either
\* leaves the process or yields bytes of unknown content; a decode that fails
\* leaves the function with a UnicodeDecodeError
ReadVLSD ==
    /\ pc = "while"
    /\ position < strlen(tmp)
    /\ coercion = "integer"
    /\ record_id \in DOMAIN record
    /\ record[record_id].Flags % 2 = 1
    /\ \E g \in {0, 1}, survives \in BOOLEAN :
        LET p1      == position + record_id_size
            VLSDLen == IntLE(Slice(tmp, p1, p1 + 4, g))
            p2      == p1 + 4
            stop    == p2 + VLSDLen - 1
            d       == Decode(signal_data_type, Slice(tmp, p2, stop, g))
            name    == record[record_id].channelName
        IN  /\ (p2 <= Len(tmp) + 1 /\ (VLSDLen > MaxPayload \/ stop <= Len(tmp) + 1))
                    => g = 0
            /\ (VLSDLen <= MaxPayload) => survives
            /\ CASE VLSDLen = 0 ->
                        /\ pc' = "raised"
                        /\ exception' = "SystemError"
                        /\ reads' = reads \cup (position..(p2 - 1))
                        /\ UNCHANGED <<buf, position>>
                 [] VLSDLen > MaxPayload /\ ~survives ->
                        /\ pc' = "crashed"
                        /\ exception' = "SIGSEGV"
                        /\ reads' = reads \cup (position..(p2 - 1))
                        /\ UNCHANGED <<buf, position>>
                 [] VLSDLen > MaxPayload /\ survives ->
                        /\ buf' = [buf EXCEPT ![name] =
                                        Append(@, [kind |-> "unknown", v |-> <<>>])]
                        /\ position' = Advance(p2, VLSDLen)
                        /\ reads' = reads \cup (position..(p2 - 1))
                        /\ UNCHANGED <<pc, exception>>
                 [] OTHER ->
                        IF ~d.ok
                        THEN /\ pc' = "raised"
                             /\ exception' = "UnicodeDecodeError"
                             /\ reads' = reads \cup (position..(stop - 1))
                             /\ UNCHANGED <<buf, position>>
                        ELSE /\ buf' = [buf EXCEPT ![name] =
                                            Append(@, [kind |-> d.kind, v |-> d.v])]
                             /\ position' = Advance(p2, VLSDLen)
                             /\ reads' = reads \cup (position..(stop - 1))
                             /\ UNCHANGED <<pc, exception>>
    /\ UNCHANGED <<build, other, args, vlsd, reader, swap, i, temp, record_id_size, coercion>>

\* a str or bytes element of a numpy array reads back without its trailing NULs
RECURSIVE StripNul(_)
StripNul(v) ==
    IF v # <<>> /\ v[Len(v)] = 0 THEN StripNul(SubSeq(v, 1, Len(v) - 1)) ELSE v

\* the channels fed by VLSD groups
VLSDChannels ==
    {record[id].channelName : id \in {x \in DOMAIN record : record[x].Flags % 2 = 1}}

\* np.array(buf[chan])
ToArray(chan, list) ==
    [k \in 1..Len(list) |->
        IF chan \in VLSDChannels
        THEN [kind |-> list[k].kind, v |-> StripNul(list[k].v)]
        ELSE list[k]]

\* the loop ends, every list becomes an array, buf is returned
ReturnBuf ==
    /\ pc = "while"
    /\ position >= strlen(tmp)
    /\ buf' = [c \in DOMAIN buf |-> ToArray(c, buf[c])]
    /\ pc' = "returned"
    /\ UNCHANGED <<build, other, args, vlsd, reader, swap, i, temp, reads, unsorted>>


(***************************************************************************)
(* The streams handed to unsorted_data_read: records of the three groups   *)
(* one after the other, each a record id, then the bytes of its channels   *)
(* or, for the VLSD group, a 4-byte length and that many bytes of text     *)
(* ending in NUL, or bytes of a byte array, which has no closing NUL; then *)
(* the same stream with bytes missing at its end.                          *)
(***************************************************************************)
\* the record id as record_id_size bytes
Tag(id, size) == [k \in 1..size |-> IF k = 1 THEN id ELSE 0]

\* the text of L bytes of the k-th record of the stream
Payload(L, k) ==
    CASE L = 0 -> <<>>
      [] L = 1 -> <<0>>
      [] L = 2 -> <<64 + k, 0>>
      [] L = 3 -> <<195, 169, 0>>
      [] OTHER -> [j \in 1..L |-> IF j = L THEN 0 ELSE 96 + j]

\* the byte array of L bytes
RawPayload(L) == [j \in 1..L |-> 96 + j]

RecordKinds ==
    {[id |-> 1, len |-> 0, raw |-> FALSE], [id |-> 2, len |-> 0, raw |-> FALSE]}
        \cup {[id |-> 3, len |-> L, raw |-> FALSE] : L \in 0..MaxPayload}
        \cup {[id |-> 3, len |-> MaxPayload, raw |-> TRUE]}

\* the bytes of the k-th record of the stream
RecordOf(kind, k, size) ==
    CASE kind.id = 1 -> Tag(1, size) \o <<16 * k + 1, 16 * k + 2>>
      [] kind.id = 2 -> Tag(2, size) \o <<16 * k + 3>>
      [] OTHER -> Tag(3, size) \o <<kind.len, 0, 0, 0>>
                    \o (IF kind.raw THEN RawPayload(kind.len) ELSE Payload(kind.len, k))

RECURSIVE Stream(_, _, _)
Stream(kinds, n, size) ==
    IF n = 0 THEN <<>>
    ELSE Stream(kinds, n - 1, size) \o RecordOf(kinds[n], n, size)

\* the state at the entry of unsorted_data_read, the VLSD channel of one of the
\* signal data types `types` and the host of one of the byte orders `orders`
InitStream(types, orders) ==
    \E kinds \in SeqsUpTo(RecordKinds, MaxStream), size \in {1, 2},
       t \in types, order \in orders,
       co \in {"TypeError", "integer"} :
        \E cut \in 0..Len(Stream(kinds, Len(kinds), size)) :
            /\ kinds = <<>> => cut = 0
            /\ kinds # <<>> => cut < Len(RecordOf(kinds[Len(kinds)], Len(kinds), size))
            /\ tmp = SubSeq(Stream(kinds, Len(kinds), size), 1,
                            Len(Stream(kinds, Len(kinds), size)) - cut)
            /\ record_id_size = size
            /\ signal_data_type = t
            /\ byteorder = order
            /\ coercion = co
            /\ exception = ""
            /\ int_width = 32
            /\ long_width = 64
            /\ char_signed = TRUE
            /\ revision = "sorted_data_read"
            /\ bit_count = 0
            /\ record_format = ""
            /\ number_of_records = 0
            /\ record_byte_size = 0
            /\ bit_offset = 0
            /\ pos_byte_beg = 0
            /\ n_bytes = 0
            /\ array = FALSE
            /\ pc = "entry"
            /\ reader = ""
            /\ swap = 0
            /\ i = 0
            /\ temp = {}
            /\ buf = <<>>
            /\ reads = {}
            /\ position = 0
            /\ python = 3
            /\ sd_block_length = 0
            /\ pointer = 0
            /\ max_len = 0
            /\ channel_format = ""
            /\ notice = <<>>
            /\ returns = ""
            /\ other = NoCall

InitUnsorted == InitStream({6, 7, 8, 9, 10}, {"little", "big"})

\* the streams alone: a VLSD channel of UTF-8 text or of byte arrays
InitSplit == InitStream({7, 10}, {"little"})

NextUnsorted == InitialiseBuf \/ RecordIdTypeError \/ ReadFixed \/ ReadVLSD \/ ReturnBuf

SpecUnsorted == InitUnsorted /\ [][NextUnsorted]_vars

SpecSplit == InitSplit /\ [][NextUnsorted]_vars


(***************************************************************************)
(* The records a stream holds, read off the stream itself by the layout of *)
(* its records.                                                            *)
(***************************************************************************)
\* the bytes of the stream from offset p, at most n of them
Present(p, n) ==
    [k \in 1..(IF p + n <= Len(tmp) THEN n ELSE IF p < Len(tmp) THEN Len(tmp) - p ELSE 0)
        |-> tmp[p + k]]

\* the offset behind the record whose record id starts at offset p, or -1 when the
\* stream ends inside its record id, its bytes, its length field or its payload
RecordEnd(p) ==
    LET idb == Present(p, record_id_size)
        id  == IntLE(idb)
        lb  == Present(p + record_id_size, 4)
    IN  IF Len(idb) < record_id_size \/ id \notin DOMAIN record THEN -1
        ELSE IF record[id].Flags % 2 = 0
            THEN (IF p + record[id].CGrecordLength <= Len(tmp)
                  THEN p + record[id].CGrecordLength ELSE -1)
        ELSE IF Len(lb) = 4 /\ p + record_id_size + 4 + IntLE(lb) <= Len(tmp)
            THEN p + record_id_size + 4 + IntLE(lb)
        ELSE -1

\* the offsets at which the complete records of the stream start, from offset p on
RECURSIVE CompleteRecords(_)
CompleteRecords(p) ==
    IF p >= Len(tmp) \/ RecordEnd(p) = -1 THEN <<>>
    ELSE <<p>> \o CompleteRecords(RecordEnd(p))

\* the offset behind the last complete record
LastBoundary ==
    LET rs == CompleteRecords(0)
    IN  IF rs = <<>> THEN 0 ELSE RecordEnd(rs[Len(rs)])

\* the stream ends inside a record
Truncated == LastBoundary < Len(tmp)

\* the complete records that carry channel c
RecordsOf(c) ==
    SelectSeq(CompleteRecords(0),
        LAMBDA p : \E k \in 1..Len(record[IntLE(Present(p, record_id_size))].dataRecordName) :
                        record[IntLE(Present(p, record_id_size))].dataRecordName[k] = c)

\* C9: the splitter returns with success only when the stream is exhausted exactly
\* at a record-tag boundary; a stream that ends inside a record id, a fixed record,
\* a VLSD length field or a VLSD payload is never answered with a result
C9_SuccessOnlyAtTagBoundary == pc = "returned" => ~Truncated

\* C10: when the stream is truncated the splitter still returns buf, and every
\* channel holds one element for each of its records that lies complete before
\* the truncation point
C10_DecodedChannelsStillReturned ==
    (Truncated /\ pc \in {"returned", "raised", "crashed"}) =>
        /\ pc = "returned"
        /\ \A c \in Channels : Len(buf[c]) >= Len(RecordsOf(c))

\* the value read_record yields for channel c of the fixed record at offset p
ChannelByte(c, p) ==
    LET names == record[IntLE(Present(p, record_id_size))].dataRecordName
    IN  tmp[p + record_id_size + (CHOOSE k \in 1..Len(names) : names[k] = c)]

\* C11: whatever the interleaving of the records of the groups, a returned channel
\* holds exactly one element per record of its group in the stream, in the order
\* of arrival, and nothing from the records of other groups
C11_OneElementPerRecordInOrder ==
    (pc = "returned" /\ ~Truncated) =>
        \A c \in Channels :
            /\ Len(buf[c]) = Len(RecordsOf(c))
            /\ c \notin VLSDChannels =>
                    \A k \in 1..Len(buf[c]) : buf[c][k] = ChannelByte(c, RecordsOf(c)[k])

\* the L bytes behind the length field of the VLSD record at offset p
VLSDPayload(p) ==
    Present(p + record_id_size + 4, IntLE(Present(p + record_id_size, 4)))

\* C12: the element a VLSD record appends to its channel is the decoding of exactly
\* the L bytes that follow its 4-byte length field
C12_VLSDPayloadIsLBytes ==
    (pc = "returned" /\ ~Truncated /\ Len(buf["v"]) = Len(RecordsOf("v"))) =>
        \A k \in 1..Len(buf["v"]) :
            LET d == Decode(signal_data_type, VLSDPayload(RecordsOf("v")[k]))
            IN  d.ok => buf["v"][k] = [kind |-> d.kind, v |-> StripNul(d.v)]


(***************************************************************************)
(* sd_data_read: the reader of an SD block, a sequence of entries of a     *)
(* 4-byte length and that many bytes.  bit_stream is a char* as in         *)
(* unsorted_data_read, and VLSDLen is a C integer that is assigned a bytes *)
(* slice (coercion).  The text path calls rstrip('\x00') on a bytes        *)
(* object: with Python 3 the str argument is a TypeError, with Python 2 it *)
(* strips the trailing NULs.                                               *)
(***************************************************************************)
\* the if chain on signal_data_type: the codec name of the text path
ChannelFormat(t) ==
    CASE t = 6 -> "ISO8859"
      [] t = 7 -> "utf-8"
      [] t = 8 -> "<utf-16"
      [] t = 9 -> ">utf-16"
      [] OTHER -> "utf-8"

\* bytes.decode(channel_format)
DecodeText(fmt, b) ==
    CASE fmt = "ISO8859" -> [ok |-> TRUE, v |-> b]
      [] fmt = "utf-8" -> Utf8(b)
      [] OTHER -> Utf16(b)

\* the declarations and the choice of channel_format
SelectFormat ==
    /\ pc = "entry"
    /\ pointer' = 0
    /\ max_len' = 0
    /\ buf' = <<>>
    /\ channel_format' = (IF signal_data_type < 10 THEN ChannelFormat(signal_data_type)
                          ELSE "")
    /\ notice' = (IF signal_data_type < 10 /\ signal_data_type \notin {6, 7, 8, 9}
                  THEN Append(notice, "signal_data_type should have fixed length")
                  ELSE notice)
    /\ pc' = "while"
    /\ UNCHANGED <<build, other, args, reader, swap, i, temp, reads, unsorted, returns>>

\* the first statement of either loop as Cython coerces it
VLSDLenTypeError ==
    /\ pc = "while"
    /\ pointer < sd_block_length
    /\ coercion = "TypeError"
    /\ pc' = "raised"
    /\ exception' = "TypeError"
    /\ reads' = reads \cup (pointer..(pointer + 3))
    /\ UNCHANGED <<build, other, args, vlsd, reader, swap, i, temp, buf, position,
                   record_id_size, coercion>>

\* one pass of either while loop.  A VLSDLen no block of the model announces comes
\* from bytes behind the buffer: the copy of that many bytes either leaves the
\* process or yields bytes of unknown content
ReadEntry ==
    /\ pc = "while"
    /\ pointer < sd_block_length
    /\ coercion = "integer"
    /\ \E g \in {0, 1}, survives \in BOOLEAN :
        LET VLSDLen == IntLE(Slice(tmp, pointer, pointer + 4, g))
            p2      == pointer + 4
            stop    == p2 + VLSDLen
            element == Slice(tmp, p2, stop, g)
            d       == DecodeText(channel_format, StripNul(element))
            known   == VLSDLen <= MaxPayload
            span    == pointer..((IF known THEN stop ELSE p2) - 1)
        IN  /\ (p2 <= Len(tmp) + 1 /\ (~known \/ stop <= Len(tmp) + 1)) => g = 0
            /\ known => survives
            /\ reads' = reads \cup span
            /\ CASE ~survives ->
                        /\ pc' = "crashed"
                        /\ exception' = "SIGSEGV"
                        /\ UNCHANGED <<buf, pointer, max_len>>
                 [] survives /\ signal_data_type < 10 /\ python = 3 ->
                        /\ pc' = "raised"
                        /\ exception' = "TypeError"
                        /\ UNCHANGED <<buf, pointer, max_len>>
                 [] survives /\ signal_data_type < 10 /\ python = 2 /\ known /\ ~d.ok ->
                        /\ pc' = "raised"
                        /\ exception' = "UnicodeDecodeError"
                        /\ UNCHANGED <<buf, pointer, max_len>>
                 [] OTHER ->
                        /\ buf' = Append(buf,
                                    IF ~known THEN [kind |-> "unknown", v |-> <<>>]
                                    ELSE IF signal_data_type < 10
                                        THEN [kind |-> "str", v |-> d.v]
                                    ELSE [kind |-> "bytes", v |-> element])
                        /\ pointer' = stop
                        /\ max_len' = (IF VLSDLen > max_len THEN VLSDLen ELSE max_len)
                        /\ UNCHANGED <<pc, exception>>
    /\ UNCHANGED <<build, other, args, reader, swap, i, temp, position, record_id_size,
                   coercion, channel_format, notice, returns>>

\* n fill values
Fill(n, x) == [k \in 1..(IF n > 0 THEN n ELSE 0) |-> x]

\* ''.join([element, ' ' * (max_len - len(element))]); a max_len that stems from
\* bytes behind the buffer leaves an element of unknown width
PadText(e) ==
    IF max_len > MaxPayload THEN [kind |-> "unknown", v |-> <<>>]
    ELSE IF e.kind = "str" THEN [kind |-> "str", v |-> e.v \o Fill(max_len - Len(e.v), 32)]
    ELSE e

\* bytearray(element).rjust(max_len, b'\x00')
PadBytes(e) ==
    IF max_len > MaxPayload THEN [kind |-> "unknown", v |-> <<>>]
    ELSE IF e.kind = "bytes" THEN [kind |-> "bytes", v |-> Fill(max_len - Len(e.v), 0) \o e.v]
    ELSE e

\* the loop ends: the elements are brought to max_len and returned as an array; an
\* empty buf is answered with a printf and no return statement; np.frombuffer
\* refuses the dtype V0
ReturnArray ==
    /\ pc = "while"
    /\ pointer >= sd_block_length
    /\ IF buf = <<>>
       THEN /\ notice' = Append(notice, "VLSD channel could not be properly read")
            /\ returns' = "None"
            /\ pc' = "returned"
            /\ UNCHANGED <<buf, exception>>
       ELSE IF signal_data_type < 10
       THEN /\ buf' = [k \in 1..Len(buf) |-> PadText(buf[k])]
            /\ returns' = "ndarray"
            /\ pc' = "returned"
            /\ UNCHANGED <<notice, exception>>
       ELSE IF max_len = 0
       THEN /\ pc' = "raised"
            /\ exception' = "ValueError"
            /\ UNCHANGED <<buf, notice, returns>>
       ELSE /\ buf' = [k \in 1..Len(buf) |-> PadBytes(buf[k])]
            /\ returns' = "ndarray"
            /\ pc' = "returned"
            /\ UNCHANGED <<notice, exception>>
    /\ UNCHANGED <<build, other, args, reader, swap, i, temp, reads, position, record_id_size,
                   coercion, pointer, max_len, channel_format>>


(***************************************************************************)
(* The SD blocks handed to sd_data_read: entries one after the other, each *)
(* a 4-byte length and that many bytes, a text ending in NUL or bytes with *)
(* no closing NUL; then the same block with bytes missing at its end.      *)
(***************************************************************************)
EntryKinds ==
    {[len |-> L, raw |-> r] : L \in 0..MaxPayload, r \in BOOLEAN} \ {[len |-> 0, raw |-> TRUE]}

\* the bytes of the k-th entry of the block
EntryOf(kind, k) ==
    <<kind.len, 0, 0, 0>> \o (IF kind.raw THEN RawPayload(kind.len) ELSE Payload(kind.len, k))

RECURSIVE Block(_, _)
Block(kinds, n) ==
    IF n = 0 THEN <<>> ELSE Block(kinds, n - 1) \o EntryOf(kinds[n], n)

\* the signal data types sd_data_read is called with: a type below 10 that is no
\* string type, the four string types, a byte array
SDTypes == {3, 6, 7, 8, 9, 10}

\* the state at the entry of sd_data_read
InitSD ==
    \E kinds \in SeqsUpTo(EntryKinds, MaxStream), t \in SDTypes,
       order \in {"little", "big"}, co \in {"TypeError", "integer"}, py \in {2, 3} :
        \E cut \in 0..Len(Block(kinds, Len(kinds))) :
            /\ kinds = <<>> => cut = 0
            /\ kinds # <<>> => cut < Len(EntryOf(kinds[Len(kinds)], Len(kinds)))
            /\ tmp = SubSeq(Block(kinds, Len(kinds)), 1, Len(Block(kinds, Len(kinds))) - cut)
            /\ sd_block_length = Len(Block(kinds, Len(kinds))) - cut
            /\ signal_data_type = t
            /\ byteorder = order
            /\ coercion = co
            /\ python = py
            /\ exception = ""
            /\ int_width = 32
            /\ long_width = 64
            /\ char_signed = TRUE
            /\ revision = "sorted_data_read"
            /\ bit_count = 0
            /\ record_format = ""
            /\ number_of_records = 0
            /\ record_byte_size = 0
            /\ bit_offset = 0
            /\ pos_byte_beg = 0
            /\ n_bytes = 0
            /\ array = FALSE
            /\ pc = "entry"
            /\ reader = ""
            /\ swap = 0
            /\ i = 0
            /\ temp = {}
            /\ buf = <<>>
            /\ reads = {}
            /\ position = 0
            /\ record_id_size = 0
            /\ pointer = 0
            /\ max_len = 0
            /\ channel_format = ""
            /\ notice = <<>>
            /\ returns = ""
            /\ other = NoCall

NextSD == SelectFormat \/ VLSDLenTypeError \/ ReadEntry \/ ReturnArray

SpecSD == InitSD /\ [][NextSD]_vars


(***************************************************************************)
(* The entries a block holds, read off the block itself.                   *)
(***************************************************************************)
\* the offset behind the entry that starts at offset p, or -1 when the block ends
\* inside its length field or its payload
EntryEnd(p) ==
    IF Len(Present(p, 4)) = 4 /\ p + 4 + IntLE(Present(p, 4)) <= Len(tmp)
    THEN p + 4 + IntLE(Present(p, 4))
    ELSE -1

\* the offsets at which the complete entries of the block start, from offset p on
RECURSIVE Entries(_)
Entries(p) ==
    IF p >= Len(tmp) \/ EntryEnd(p) = -1 THEN <<>>
    ELSE <<p>> \o Entries(EntryEnd(p))

\* the L payload bytes of the entry at offset p
EntryPayload(p) == Present(p + 4, IntLE(Present(p, 4)))

\* the block is a sequence of complete entries and nothing else
WholeBlock ==
    LET es == Entries(0)
    IN  IF es = <<>> THEN Len(tmp) = 0 ELSE EntryEnd(es[Len(es)]) = Len(tmp)

\* the largest L of the entries
MaxEntryLen ==
    LET es == Entries(0)
    IN  IF es = <<>> THEN 0
        ELSE CHOOSE m \in {Len(EntryPayload(es[k])) : k \in 1..Len(es)} :
                \A k \in 1..Len(es) : Len(EntryPayload(es[k])) <= m

\* the call of sd_data_read has ended, one way or the other
Ended == pc \in {"returned", "raised", "crashed"}

\* C13: sd_data_read walks a block of complete entries to its end and returns an
\* array of as many elements as the block has length-prefixed entries
C13_OneElementPerEntry ==
    (Ended /\ WholeBlock /\ Entries(0) # <<>>) =>
        /\ pc = "returned"
        /\ returns = "ndarray"
        /\ Len(buf) = Len(Entries(0))

\* the text of the entry at offset p as ISO-8859-1 or UTF-8, closing NULs removed
EntryText(p) == DecodeText(ChannelFormat(signal_data_type), StripNul(EntryPayload(p))).v

\* C14: every element sd_data_read returns has the width of the longest payload of
\* the block, max_len is the largest L, and a shorter text is followed by spaces up
\* to that width ("ab", "", "xyz" give "ab ", "   ", "xyz")
C14_UniformWidthSpacePadded ==
    (Ended /\ WholeBlock /\ Entries(0) # <<>>) =>
        /\ pc = "returned"
        /\ returns = "ndarray"
        /\ max_len = MaxEntryLen
        /\ \A k \in 1..Len(buf) : Len(buf[k].v) = MaxEntryLen
        /\ signal_data_type \in {6, 7} =>
                /\ Len(buf) = Len(Entries(0))
                /\ \A k \in 1..Len(buf) :
                        buf[k].v = EntryText(Entries(0)[k])
                                    \o Fill(MaxEntryLen - Len(EntryText(Entries(0)[k])), 32)

\* C15: a byte-array entry shorter than the longest one is filled with zero bytes
\* on its right: the payload bytes come first in the element, the fill behind them
C15_BinaryZeroPaddedOnTheRight ==
    (pc = "returned" /\ returns = "ndarray" /\ signal_data_type >= 10 /\ WholeBlock) =>
        /\ Len(buf) = Len(Entries(0))
        /\ \A k \in 1..Len(buf) :
                buf[k].v = EntryPayload(Entries(0)[k])
                            \o Fill(MaxEntryLen - Len(EntryPayload(Entries(0)[k])), 0)

\* C16: a block without entries (sd_block_length = 0) is answered with an empty
\* array and without an error, for the text types and the byte arrays alike
C16_EmptyBlockGivesEmptyArray ==
    (Ended /\ sd_block_length = 0) =>
        /\ pc = "returned"
        /\ returns = "ndarray"
        /\ buf = <<>>

\* UTF-16 of a stated byte order: the code units in that order, no byte order mark
\* looked for
Utf16Of(order, b) ==
    IF Len(b) % 2 = 1 \/ \E k \in 1..Len(Units(b, order)) : Units(b, order)[k] \in 55296..57343
    THEN [ok |-> FALSE, v |-> <<>>]
    ELSE [ok |-> TRUE, v |-> Units(b, order)]

\* the encoding table of the string types
TableDecode(t, b) ==
    CASE t = 6 -> [ok |-> TRUE, v |-> b]
      [] t = 7 -> Utf8(b)
      [] t = 8 -> Utf16Of("little", b)
      [] t = 9 -> Utf16Of("big", b)

\* C17: the type codes 6, 7, 8, 9 decode as ISO-8859-1, UTF-8, UTF-16 little-endian
\* and UTF-16 big-endian; every other type code is taken as a raw byte blob, with
\* a diagnostic notice
C17_EncodingTable ==
    pc # "entry" =>
        IF signal_data_type \in {6, 7, 8, 9}
        THEN \A k \in 1..Len(Entries(0)) :
                DecodeText(channel_format, EntryPayload(Entries(0)[k]))
                    = TableDecode(signal_data_type, EntryPayload(Entries(0)[k]))
        ELSE channel_format = "" /\ notice # <<>>


(***************************************************************************)
(* sorted_data_read: the fallback of the dispatch.                         *)
(***************************************************************************)
\* the combinations of type code and byte length that name a number: integers of
\* up to 8 bytes, floats of 2, 4 or 8 bytes, complex numbers of 4, 8 or 16 bytes
\* (the CANopen types 13 and 14 are left to either path)
NumberLayout ==
    \/ signal_data_type \in {0, 1, 2, 3} /\ n_bytes <= 8
    \/ signal_data_type \in {4, 5} /\ n_bytes \in {2, 4, 8}
    \/ signal_data_type \in {15, 16} /\ n_bytes \in {4, 8, 16}

\* C18: a byte string, a blob or a combination of type code and byte length that
\* names no number goes to the byte-copy path, whose element is exactly the field's
\* byte span of its record; no combination ends the call without an array
C18_ByteCopyFallback ==
    (pc # "call" /\ ~array) =>
        /\ pc # "none"
        /\ (record_format = "V" \/ (~NumberLayout /\ signal_data_type \notin {13, 14}))
                => reader = "read_byte"
        /\ (pc = "returned" /\ reader = "read_byte" /\ WellFormed)
                => \A k \in 1..Len(buf) : buf[k] = FieldBytes(k - 1)

\* the element width of the bit_count range
RangeWidth(c) == IF c <= 8 THEN 8 ELSE IF c <= 16 THEN 16 ELSE IF c <= 32 THEN 32 ELSE 64

\* C19: the element width of a decoded integer channel follows from the range of
\* bit_count alone, 8, 16, 32 or 64 bits, whatever bit_offset is
C19_WidthFromBitCountRange ==
    (pc # "call" /\ ~array /\ record_format = "num" /\ signal_data_type \in {0, 1, 2, 3}) =>
        /\ reader \in IntReaders
        /\ Width(reader) = RangeWidth(bit_count)

\* C20: a float type code is decoded only with bit_offset = 0 and a bit_count of
\* the full width, 16, 32 or 64; with any other bit_offset or bit_count the decoder
\* rejects the field and decodes nothing
C20_PartialFloatRejected ==
    (pc # "call" /\ ~array /\ record_format = "num" /\ signal_data_type \in {4, 5}
        /\ ~(bit_offset = 0 /\ bit_count \in {16, 32, 64})) =>
            pc = "raised"

\* C21: a field with bit_count = 0 is refused by the decoder, which produces no
\* array for it
C21_ZeroBitCountRejected ==
    (pc # "call" /\ ~array /\ record_format = "num" /\ bit_count = 0) => pc = "raised"

\* the component of n_bytes \div 2 bytes at byte `at` (0-based) of the field of
\* record r, as the integer its bytes form in the declared byte order
Component(r, at) ==
    LET b == SubSeq(FieldBytes(r), at + 1, at + n_bytes \div 2)
    IN  IF SourceOrder = "little" THEN WordLE(b) ELSE WordBE(b)

\* the real and the imaginary part of element e: the first and the second half of
\* its bytes in memory
RealPart(e) == IF byteorder = "little" THEN e \cap Bits(4 * n_bytes) ELSE Shr(e, 4 * n_bytes)
ImagPart(e) == IF byteorder = "little" THEN Shr(e, 4 * n_bytes) ELSE e \cap Bits(4 * n_bytes)

\* C22: a complex field is two adjacent components of the same width: the real
\* part is read at the field offset, the imaginary part right behind it (offset + 2
\* for half precision), each taken in the declared byte order
C22_ComplexIsTwoAdjacentComponents ==
    (pc \in {"returned", "raised", "none"} /\ ~array /\ record_format = "num"
        /\ signal_data_type \in {15, 16} /\ n_bytes \in {4, 8, 16} /\ WellFormed) =>
            /\ pc = "returned"
            /\ \A k \in 1..Len(buf) :
                    /\ RealPart(buf[k]) = Component(k - 1, 0)
                    /\ ImagPart(buf[k]) = Component(k - 1, n_bytes \div 2)

(***************************************************************************)
(* Two decode calls over the same buffer, for two channels of the record.  *)
(* Every temporary and the output array are locals of the call (cdef in    *)
(* the reader), bit_stream is a const char * into the bytes object, and    *)
(* the module has no global the readers write.  A switch of threads or     *)
(* processes leaves the running call's frame as it is and resumes the      *)
(* other's.                                                                *)
(***************************************************************************)
MaxSwitches == 4

\* length of the records the two channels share
SharedStride == 4

\* channels of the shared record: layout and first byte
SharedChannels ==
    {[l |-> Layout(t, 4, 12, 2, "num", FALSE), beg |-> 0] : t \in {0, 1}}
        \cup {[l |-> Layout(t, 1, 20, 3, "num", FALSE), beg |-> 1] : t \in {2, 3}}
        \cup {[l |-> Layout(t, 0, 32, 4, "num", FALSE), beg |-> 0] : t \in {4, 5}}
        \cup {[l |-> Layout(10, 0, 16, 2, "V", FALSE), beg |-> 2]}

\* the frame of the call that is running
Frame(s) ==
    CallFrame(bit_count, signal_data_type, record_format, number_of_records,
              record_byte_size, bit_offset, pos_byte_beg, n_bytes, array, pc, reader,
              swap, i, temp, buf, reads, s)

\* a static temporary, one for all calls: what the other call left in it
ResumedShared(t) == temp

\* the temporary a call finds when it resumes: its own local, as it left it
Resumed(t) == t

\* the running call is suspended and the other one resumes
Switch ==
    /\ other.pc # "idle"
    /\ other.switches < MaxSwitches
    /\ other' = Frame(other.switches + 1)
    /\ bit_count' = other.bit_count
    /\ signal_data_type' = other.signal_data_type
    /\ record_format' = other.record_format
    /\ number_of_records' = other.number_of_records
    /\ record_byte_size' = other.record_byte_size
    /\ bit_offset' = other.bit_offset
    /\ pos_byte_beg' = other.pos_byte_beg
    /\ n_bytes' = other.n_bytes
    /\ array' = other.array
    /\ pc' = other.pc
    /\ reader' = other.reader
    /\ swap' = other.swap
    /\ i' = other.i
    /\ temp' = Resumed(other.temp)
    /\ buf' = other.buf
    /\ reads' = other.reads
    /\ UNCHANGED <<build, tmp, sd_block_length, unsorted, vlsd>>

\* two calls at the entry of sorted_data_read, over one buffer
InitTwoCalls ==
    \E b \in Builds("sorted_data_read"), ca \in SharedChannels, cb \in SharedChannels,
       pats \in SeqsUpTo(Patterns, MaxRecords) :
        /\ byteorder = b.byteorder
        /\ int_width = b.int_width
        /\ long_width = b.long_width
        /\ char_signed = b.char_signed
        /\ revision = "sorted_data_read"
        /\ python = 3
        /\ tmp = BuildTmp(pats, SharedStride, 0, SharedStride, 0)
        /\ bit_count = ca.l.bit_count
        /\ signal_data_type = ca.l.signal_data_type
        /\ record_format = ca.l.record_format
        /\ bit_offset = ca.l.bit_offset
        /\ n_bytes = ca.l.n_bytes
        /\ array = ca.l.array
        /\ number_of_records = Len(pats)
        /\ record_byte_size = SharedStride
        /\ pos_byte_beg = ca.beg
        /\ pc = "call"
        /\ reader = ""
        /\ swap = 0
        /\ i = 0
        /\ temp = {}
        /\ buf = <<>>
        /\ reads = {}
        /\ other = CallFrame(cb.l.bit_count, cb.l.signal_data_type, cb.l.record_format,
                             Len(pats), SharedStride, cb.l.bit_offset, cb.beg,
                             cb.l.n_bytes, cb.l.array, "call", "", 0, 0, {}, <<>>, {}, 0)
        /\ position = 0
        /\ record_id_size = 0
        /\ coercion = ""
        /\ exception = ""
        /\ sd_block_length = 0
        /\ pointer = 0
        /\ max_len = 0
        /\ channel_format = ""
        /\ notice = <<>>
        /\ returns = ""

NextTwoCalls == Call \/ Step \/ Return \/ Switch

SpecTwoCalls == InitTwoCalls /\ [][NextTwoCalls]_vars

\* the reader's loop run alone over the first k records of the buffer
RECURSIVE SoloRun(_)
SoloRun(k) ==
    IF k = 0 THEN [t |-> {}, out |-> <<>>]
    ELSE LET p == SoloRun(k - 1)
             e == Body(reader, p.t, RecordBytes(tmp, record_byte_size, pos_byte_beg, k - 1, 0))
         IN  [t |-> IF reader = "read_byte" THEN p.t ELSE e, out |-> Append(p.out, e)]

\* C23: no step of a decode call writes to the record buffer, and whatever the
\* interleaving of two calls over the same buffer, the array a call returns is
\* the array the same call returns when it runs alone
C23_InterleavingIsSequential ==
    /\ [](pc = "returned" => buf = Returned(reader, swap, SoloRun(number_of_records).out))
    /\ [][tmp' = tmp]_vars

\* both calls returned, 2 records each, the signed 3-byte channel among them, and
\* the two took turns more than once
C23_Witness ==
    /\ pc = "returned"
    /\ other.pc = "returned"
    /\ other.switches >= 3
    /\ number_of_records = 2
    /\ reader = "read_signed_int"
    /\ other.reader = "read_unsigned_short"
    /\ other.reads # {}

\* C24: when the bytes have to be swapped (swap flag 1) the integer the shift and
\* the mask work on is the field in machine order, for every reader width and
\* every bit_count below it: each element returned is the field's integer in the
\* declared byte order, shifted right by bit_offset and masked to bit_count bits
\* (sign-extended for a signed type)
C24_SwappedBeforeShiftAndMask ==
    (pc = "returned" /\ WellFormed /\ swap = 1 /\ (UnsignedField \/ SignedField)
        /\ bit_count > 0 /\ bit_count < Width(reader)) =>
            \A k \in 1..Len(buf) :
                buf[k] = IF SignedField
                         THEN SignExt(Extracted(k - 1), bit_count, Width(reader))
                         ELSE Extracted(k - 1)

\* C25: in the byte-swapping branch of an integer reader, the integer assembled
\* from the bytes copied for the next record is their big-endian interpretation:
\* byte k contributes b[k] * 256^(n-1-k), nothing more and nothing less
C25_SwapAssemblesBigEndian ==
    (pc = "loop" /\ i < number_of_records /\ WellFormed /\ reader \in IntReaders
        /\ swap = 1 /\ ~PlainCopy(reader) /\ SwapsInLoop(reader)) =>
            LET b == RecordBytes(tmp, record_byte_size, pos_byte_beg, i, 0)
            IN  ToType(SwapBytes(b), Width(reader)) = WordBE(b)

\* C26: the element stored for record k is what the reader's loop body gives for
\* the bytes of record k alone, with a temporary that holds nothing of an
\* earlier record
C26_ElementFromOwnRecordOnly ==
    (pc = "loop" /\ WellFormed) =>
        \A k \in 1..Len(buf) :
            buf[k] = Body(reader, {}, RecordBytes(tmp, record_byte_size, pos_byte_beg, k - 1, 0))


\* the offsets of the stream at which a record id starts or the stream ends
\* behind a complete record
Boundaries ==
    {0} \cup {RecordEnd(CompleteRecords(0)[k]) : k \in 1..Len(CompleteRecords(0))}

\* C27: whenever the while loop of unsorted_data_read is at its head with a
\* position inside the stream or at its end, the position is the first byte of
\* a record id (or the end behind the last record): a fixed record moved it by
\* its CGrecordLength, a VLSD record by record_id_size + 4 + VLSDLen
C27_PositionAtTagBoundary ==
    (pc = "while" /\ position <= Len(tmp)) => position \in Boundaries

\* a fixed record and then a VLSD record of two bytes have been passed
C27_Witness ==
    /\ pc = "while"
    /\ position = Len(tmp)
    /\ Len(CompleteRecords(0)) = 2
    /\ Len(buf["a1"]) = 1
    /\ Len(buf["v"]) = 1
    /\ VLSDPayload(CompleteRecords(0)[2]) = <<66, 0>>


(***************************************************************************)
(* Termination.  A call runs on its own thread of control until it returns *)
(* or an exception leaves it: a step that can be taken is taken.           *)
(***************************************************************************)
FairUnsorted == SpecSplit /\ WF_vars(NextUnsorted)

\* C28: on every finite input the loop comes to the end of the stream and the
\* function returns what it has collected
C28_EventuallyReturned == <>(pc = "returned")


\* C29: every byte sd_data_read takes from the block, for a length field or for
\* a payload, lies at an offset below sd_block_length
C29_ReadsInsideBlock == reads \subseteq 0..(sd_block_length - 1)


\* the record ids found at the record boundaries of the stream
GroupsInStream ==
    {IntLE(Present(p, record_id_size)) : p \in {q \in Boundaries : q < Len(tmp)}}

\* C30: the dictionary returned has a key for every name in the dataRecordName
\* of every group of the record argument and no other key, and the channels of
\* a group without a record in the stream are empty arrays
C30_OneEntryPerChannel ==
    pc = "returned" =>
        /\ DOMAIN buf =
                UNION {{record[id].dataRecordName[k] :
                            k \in 1..Len(record[id].dataRecordName)} : id \in DOMAIN record}
        /\ \A id \in DOMAIN record \ GroupsInStream :
                \A k \in 1..Len(record[id].dataRecordName) :
                    buf[record[id].dataRecordName[k]] = <<>>

\* two records of group 1 were read and returned; groups 2 and 3 have no record
C30_Witness ==
    /\ pc = "returned"
    /\ GroupsInStream = {1}
    /\ Len(buf["a1"]) = 2
    /\ buf["b"] = <<>>
    /\ buf["v"] = <<>>

============================================================================
